---- MODULE Spec2Model ----
(***************************************************************************)
(* Tegen: a project-scoped dependency fetcher.  The model follows the      *)
(* PackageManager class (package_manager.hpp, the git-clone revision) and  *)
(* the command dispatcher main().  One command runs to completion per      *)
(* step; the failure of an external operation (mkdir, git, copy, stream    *)
(* open, directory iteration, remove_all) is an input of the step.         *)
(*                                                                         *)
(* Spec        every command of main() and direct calls of install         *)
(* SpecUsed    installs into a project that holds files of its user, with  *)
(*             the process killed at any point of install                  *)
(* SpecDescent the library-directory descent, one loop iteration per step  *)
(***************************************************************************)
EXTENDS Integers, Sequences, FiniteSets, TLC

VARIABLES
    disk,        \* the project directory: every file and directory the code touches
    platform,    \* the OS family the binary was compiled for (#ifdef _WIN32 / __APPLE__)
    lastCmd,     \* the command that ran last: [cmd, repository, version, api]
    exitStatus,  \* the exit status of the last process (NoExit for a direct call)
    stderr,      \* the kinds of message the last command wrote to std::cerr
    stdout,      \* the outcome the last command reported on std::cout
    gitLog,      \* the git commands the last command executed, in order
    failedAt,    \* the stage at which the last command's external operation failed
    stageLog,    \* the stages of install the last command entered, in order
    descent      \* the single-child descent of one staged tree: [tree, libDir, steps, pc]

vars == <<disk, platform, lastCmd, exitStatus, stderr, stdout, gitLog, failedAt,
          stageLog, descent>>

----------------------------------------------------------------------------
(* Bounds and input sets *)

\* The build description holds at most this many blocks (one per init or patch).
MaxCMakeBlocks == 3

Platforms == {"Windows", "Mac", "Linux"}

\* A path resolution that meets more symbolic links than this fails (ELOOP).
SymlinkLimit == 3

\* The longest chain of single-entry directories under lib/ in a staged tree.
MaxChain == 3

\* Dependency names given to install.
Names == {"a", "b"}

\* Version strings a caller may request; "" is the omitted version.
RequestedVersions == {"", "v1"}

NoExit == "none"

----------------------------------------------------------------------------
(* Paths.  A path component is <<stem, extension>>; a path is a sequence of *)
(* components.  A tree is the set of paths of its regular files.            *)

Dir(s) == <<s, "">>
File(s, e) == <<s, e>>

\* std::filesystem::path::extension() of the last component
Extension(p) == p[Len(p)][2]

\* std::filesystem::path::filename()
Filename(p) == p[Len(p)]

IsPrefix(p, q) == Len(p) <= Len(q) /\ SubSeq(q, 1, Len(p)) = p

\* std::filesystem::exists on a tree of regular files
Exists(tree, p) == \E q \in tree : IsPrefix(p, q)

\* std::filesystem::is_directory
IsDirectory(tree, p) == \E q \in tree : IsPrefix(p, q) /\ Len(q) > Len(p)

\* the entries std::filesystem::directory_iterator(p) yields
Entries(tree, p) ==
    {SubSeq(q, 1, Len(p) + 1) : q \in {r \in tree : IsPrefix(p, r) /\ Len(r) > Len(p)}}

\* the regular files std::filesystem::recursive_directory_iterator(p) yields
FilesUnder(tree, p) == {q \in tree : IsPrefix(p, q) /\ Len(q) > Len(p)}

\* std::filesystem::relative(file, base)
Relative(q, base) == SubSeq(q, Len(base) + 1, Len(q))

\* The source tree the remote repository TegenPackages/<repository> holds.
RemoteTree(repository) ==
    IF repository = "a"
    THEN { <<Dir("include"), Dir("a"), File("a", "h")>>,
           <<Dir("include"), File("common", "h")>>,
           <<Dir("lib"), Dir("x64"), File("liba", "a")>>,
           <<Dir("lib"), Dir("x64"), File("readme", "txt")>> }
    ELSE IF repository = "c"
    THEN { <<Dir("include"), File("c", "h")>>,
           <<Dir("lib"), File("libc", "a")>> }
    ELSE { <<Dir("include"), File("common", "h")>>,
           <<Dir("lib"), File("libb", "lib")>>,
           <<Dir("lib"), File("readme", "txt")>> }

----------------------------------------------------------------------------
(* Faults: the external operation of the running command that fails, if    *)
(* any.  "copied" is the set of files a copy loop placed before the        *)
(* failing copy_file call.                                                 *)

Fault(at, copied) == [at |-> at, copied |-> copied]

NoFault == Fault("none", {})

\* what can fail while install(repository, ...) runs
InstallFaults(repository) ==
    {Fault(p, {}) : p \in { "none", "mkdirModules", "mkdirInclude", "mkdirLib",
                            "clone", "fetch", "checkout", "pull",
                            "copyHeader", "copyLib", "iterateLib", "openConfig",
                            "relaxPermissions", "removeAll" }}
    \cup {Fault("copyHeader", S) :
            S \in SUBSET FilesUnder(RemoteTree(repository), <<Dir("include")>>)}
    \cup {Fault("copyLib", S) :
            S \in SUBSET FilesUnder(RemoteTree(repository), <<Dir("lib")>>)}

\* where the process running install can be killed: after a stage has completed,
\* or inside saveConfig between the opening of the stream and the write
CrashFaults ==
    {Fault(p, {}) : p \in { "crashAfterFetch", "crashAfterHeaders", "crashAfterLibs",
                            "crashAfterPatch", "crashInSave", "crashAfterSave" }}

\* what can fail while build() runs: either executeCommand
BuildFaults == {Fault(p, {}) : p \in {"none", "configure", "compile"}}

\* what can fail while run() runs: the std::system call
RunFaults == {Fault(p, {}) : p \in {"none", "runTarget"}}

NoReport == [kind |-> "none", repository |-> "", version |-> ""]

----------------------------------------------------------------------------
(* The manifest TegenConfig.json: deps is the "dependencies" object, a set *)
(* of <<name, version>> pairs with unique names; valid is FALSE when the   *)
(* file is empty or holds a part of a JSON text only.                      *)

\* the file a completed saveConfig leaves
Manifest(deps) == [exists |-> TRUE, valid |-> TRUE, deps |-> deps]

\* the file std::ofstream file(filePath) leaves before anything is written
Truncated == [exists |-> TRUE, valid |-> FALSE, deps |-> {}]

\* config["dependencies"].contains(repository)
Contains(deps, repository) == \E e \in deps : e[1] = repository

\* config["dependencies"][repository]
VersionOf(deps, repository) == (CHOOSE e \in deps : e[1] = repository)[2]

\* variant: the assignment replaces the whole dependencies object
SetDependencyAlone(deps, repository, resolvedVersion) ==
    {<<repository, resolvedVersion>>}

\* config["dependencies"][repository] = resolvedVersion
SetDependency(deps, repository, resolvedVersion) ==
    {e \in deps : e[1] # repository} \cup {<<repository, resolvedVersion>>}

\* the #ifdef chain that sets osBranch
OsBranch(p) ==
    IF p = "Windows" THEN "WindowsBranch"
    ELSE IF p = "Mac" THEN "MacBranch"
    ELSE "LinuxBranch"

\* variant: one default branch for every platform
ResolveVersionMain(p, version) == IF version = "" THEN "main" ELSE version

\* std::string resolvedVersion = version.empty() ? osBranch : version;
ResolveVersion(p, version) == IF version = "" THEN OsBranch(p) ELSE version

\* loadConfig: file >> config raises json::parse_error on an empty or partial text
LoadThrows(D) == D.config.exists /\ ~D.config.valid

\* saveConfig: std::ofstream file(filePath); file << config.dump(4);
\* a stream that fails to open writes nothing and raises nothing; the open
\* truncates the file in place, so a process killed before the write is flushed
\* leaves the truncated file
saveConfig(D, config, fault) ==
    IF fault.at = "openConfig"
    THEN [disk |-> D, ok |-> FALSE]
    ELSE IF fault.at = "crashInSave"
    THEN [disk |-> [D EXCEPT !.config = Truncated], ok |-> FALSE]
    ELSE [disk |-> [D EXCEPT !.config = config], ok |-> TRUE]

----------------------------------------------------------------------------
(* The stages of install.  Each returns the disk it leaves and whether it  *)
(* completed (ok = FALSE: it threw).                                       *)

\* the three create_directories calls
EnsureDirectories(D, fault) ==
    IF fault.at = "mkdirModules" /\ ~D.modulesDir
    THEN [disk |-> D, ok |-> FALSE]
    ELSE LET D1 == [D EXCEPT !.modulesDir = TRUE] IN
         IF fault.at = "mkdirInclude" /\ ~D.projectInclude.exists
         THEN [disk |-> D1, ok |-> FALSE]
         ELSE LET D2 == [D1 EXCEPT !.projectInclude.exists = TRUE] IN
              IF fault.at = "mkdirLib" /\ ~D.projectLib.exists
              THEN [disk |-> D2, ok |-> FALSE]
              ELSE [disk |-> [D2 EXCEPT !.projectLib.exists = TRUE], ok |-> TRUE]

GitCmd(op, version) == [op |-> op, version |-> version]

\* variant: a full clone whatever the state of the staging destination
FetchAlwaysClone(D, repository, resolvedVersion, fault) ==
    IF fault.at = "clone"
    THEN [disk |-> D, git |-> <<GitCmd("clone", resolvedVersion)>>, ok |-> FALSE]
    ELSE [disk |-> [D EXCEPT !.repoDir = @ \cup {repository}],
          git |-> <<GitCmd("clone", resolvedVersion)>>, ok |-> TRUE]

\* clone or update the staged repository
Fetch(D, repository, resolvedVersion, fault) ==
    IF repository \notin D.repoDir
    THEN IF fault.at = "clone"
         THEN [disk |-> D, git |-> <<GitCmd("clone", resolvedVersion)>>, ok |-> FALSE]
         ELSE [disk |-> [D EXCEPT !.repoDir = @ \cup {repository}],
               git |-> <<GitCmd("clone", resolvedVersion)>>, ok |-> TRUE]
    ELSE IF fault.at = "fetch"
         THEN [disk |-> D, git |-> <<GitCmd("fetch", "")>>, ok |-> FALSE]
         ELSE IF fault.at = "checkout"
         THEN [disk |-> D,
               git |-> <<GitCmd("fetch", ""), GitCmd("checkout", resolvedVersion)>>,
               ok |-> FALSE]
         ELSE [disk |-> D,
               git |-> <<GitCmd("fetch", ""), GitCmd("checkout", resolvedVersion),
                         GitCmd("pull", "")>>,
               ok |-> fault.at # "pull"]

\* copy_file(file, target, overwrite_existing) into a directory listing
CopyFile(files, target, content) ==
    {f \in files : f[1] # target} \cup {<<target, content>>}

RECURSIVE CopyAll(_, _, _, _)
\* the copy loop: every file of todo placed at Target(file)
CopyAll(files, todo, base, content) ==
    IF todo = {} THEN files
    ELSE LET file == CHOOSE f \in todo : TRUE IN
         CopyAll(CopyFile(files, Relative(file, base), <<content, file>>),
                 todo \ {file}, base, content)

\* variant: copy_file without overwrite_existing, which throws at the first
\* target that exists
CopyHeadersNoOverwrite(D, repository, fault) ==
    LET tree == RemoteTree(repository)
        sourceIncludeDir == <<Dir("include")>>
        headerFiles == FilesUnder(tree, sourceIncludeDir)
        present == {h \in headerFiles :
                      \E f \in D.projectInclude.files : f[1] = Relative(h, sourceIncludeDir)}
    IN IF present # {}
       THEN [disk |-> D, ok |-> FALSE]
       ELSE [disk |-> [D EXCEPT !.projectInclude.files =
                          CopyAll(@, headerFiles, sourceIncludeDir, repository)],
             ok |-> TRUE]

\* COPY HEADERS
CopyHeaders(D, repository, fault) ==
    LET tree == RemoteTree(repository)
        sourceIncludeDir == <<Dir("include")>>
        headerFiles == FilesUnder(tree, sourceIncludeDir)
        fails == /\ fault.at = "copyHeader"
                 /\ fault.copied \subseteq headerFiles
                 /\ fault.copied # headerFiles
        done == IF fails THEN fault.copied ELSE headerFiles
    IN IF ~Exists(tree, sourceIncludeDir)
       THEN [disk |-> D, ok |-> TRUE]
       ELSE [disk |-> [D EXCEPT !.projectInclude.files =
                          CopyAll(@, done, sourceIncludeDir, repository)],
             ok |-> ~fails]

RECURSIVE Descend(_, _)
\* while (exists(libDir) && is_directory(libDir) && distance(...) == 1)
\*     libDir = *directory_iterator(libDir);
Descend(tree, libDir) ==
    IF /\ Exists(tree, libDir)
       /\ IsDirectory(tree, libDir)
       /\ Cardinality(Entries(tree, libDir)) = 1
    THEN Descend(tree, CHOOSE e \in Entries(tree, libDir) : TRUE)
    ELSE libDir

IsLibrary(p) == Extension(p) = "a" \/ Extension(p) = "lib"

----------------------------------------------------------------------------
(* The same loop, one iteration per step, on staged trees that may hold     *)
(* symbolic links.  A link is a last component <<name, "", target>>, where  *)
(* target is the path of a directory of the tree.                           *)

Link(s, target) == <<s, "", target>>

\* p names a symbolic link of the tree
IsLink(tree, p) == p \in tree /\ Len(p[Len(p)]) = 3

RECURSIVE FollowUnlimited(_, _, _)
\* variant: path resolution follows any number of symbolic links
FollowUnlimited(tree, p, n) ==
    LET ks == {k \in 1..Len(p) : IsLink(tree, SubSeq(p, 1, k))} IN
    IF ks = {} THEN [path |-> p, error |-> FALSE]
    ELSE LET k == CHOOSE i \in ks : \A j \in ks : i <= j IN
         FollowUnlimited(tree, p[k][3] \o SubSeq(p, k + 1, Len(p)), n + 1)

RECURSIVE Follow(_, _, _)
\* the path resolution inside stat(): every symbolic link met is replaced by its
\* target; n links have been followed so far
Follow(tree, p, n) ==
    LET ks == {k \in 1..Len(p) : IsLink(tree, SubSeq(p, 1, k))} IN
    IF ks = {} THEN [path |-> p, error |-> FALSE]
    ELSE IF n = SymlinkLimit THEN [path |-> p, error |-> TRUE]
    ELSE LET k == CHOOSE i \in ks : \A j \in ks : i <= j IN
         Follow(tree, p[k][3] \o SubSeq(p, k + 1, Len(p)), n + 1)

\* std::filesystem::status(p): "error" makes exists(p) and is_directory(p) throw
Status(tree, p) ==
    LET r == Follow(tree, p, 0) IN
    IF r.error THEN "error"
    ELSE IF ~Exists(tree, r.path) THEN "none"
    ELSE IF IsDirectory(tree, r.path) THEN "dir"
    ELSE "file"

\* the entries directory_iterator(p) yields, named under p
Listing(tree, p) ==
    {Append(p, Filename(e)) : e \in Entries(tree, Follow(tree, p, 0).path)}

\* the condition of the while loop
SingleChild(tree, libDir) ==
    Status(tree, libDir) = "dir" /\ Cardinality(Listing(tree, libDir)) = 1

RECURSIVE CopyFlat(_, _, _)
\* the library copy loop: target = projectLib / file.filename()
CopyFlat(files, todo, content) ==
    IF todo = {} THEN files
    ELSE LET file == CHOOSE f \in todo : TRUE IN
         CopyFlat(CopyFile(files, Filename(file), <<content, file>>),
                  todo \ {file}, content)

\* COPY LIBS
CopyLibs(D, repository, fault) ==
    LET tree == RemoteTree(repository)
        libDir == Descend(tree, <<Dir("lib")>>)
        libFiles == {f \in FilesUnder(tree, libDir) : IsLibrary(f)}
        fails == /\ fault.at = "copyLib"
                 /\ fault.copied \subseteq libFiles
                 /\ fault.copied # libFiles
        done == IF fails THEN fault.copied ELSE libFiles
    IN IF ~Exists(tree, libDir)
       THEN [disk |-> D, ok |-> TRUE]
       ELSE IF ~IsDirectory(tree, libDir)
       THEN \* recursive_directory_iterator on a regular file throws
            [disk |-> D, ok |-> FALSE]
       ELSE [disk |-> [D EXCEPT !.projectLib.files = CopyFlat(@, done, repository)],
             ok |-> ~fails]

\* the block of lines one patch appends to CMakeLists.txt
Block(repository, links, sys) == [dep |-> repository, links |-> links, sys |-> sys]

\* UPDATE CMakeLists.txt: the marker and include lines are written before the
\* directory_iterator over projectLib is constructed
UpdateCMake(D, repository, p, fault) ==
    IF fault.at = "iterateLib"
    THEN [disk |-> [D EXCEPT !.cmakeFile = Append(@, Block(repository, {}, FALSE))],
          ok |-> FALSE]
    ELSE [disk |-> [D EXCEPT !.cmakeFile =
                       Append(@, Block(repository,
                                       {f[1] : f \in {g \in D.projectLib.files : IsLibrary(<<g[1]>>)}},
                                       p = "Windows"))],
          ok |-> TRUE]

\* removeFolderRecursively(modulesDir): outcome is "removed", "warning" (remove_all
\* set ec) or "thrown" (the _WIN32 recursive_directory_iterator loop threw)
removeFolderRecursively(D, p, fault) ==
    IF p = "Windows" /\ fault.at = "relaxPermissions"
    THEN [disk |-> D, outcome |-> "thrown"]
    ELSE IF fault.at = "removeAll"
    THEN [disk |-> D, outcome |-> "warning"]
    ELSE [disk |-> [D EXCEPT !.modulesDir = FALSE,
                             !.repoDir = {}],
          outcome |-> "removed"]

----------------------------------------------------------------------------
(* PackageManager's public methods.  Each returns the disk it leaves, what *)
(* it wrote to std::cerr and std::cout, the git commands it ran, the stage *)
(* that failed, and whether an exception left the method.                  *)

Result(D, err, out, git, at, thrown) ==
    [disk |-> D, stderr |-> err, stdout |-> out, git |-> git,
     failedAt |-> at, thrown |-> thrown, stages |-> <<>>]

\* the same result, with the stages the method entered
Staged(r, stages) == [r EXCEPT !.stages = stages]

Report(kind, repository, version) ==
    [kind |-> kind, repository |-> repository, version |-> version]

\* variant: the manifest is saved before the build description is patched
InstallNewSaveFirst(D, repository, resolvedVersion, p, fault) ==
    LET caught(d, git, at, st) ==
            Staged(Result(d, {"Failed to install package"}, NoReport, git, at, FALSE), st)
        f == Fetch(D, repository, resolvedVersion, fault)
        sf == <<"workspace", "fetch">>
        h == CopyHeaders(f.disk, repository, fault)
        sh == Append(sf, "headers")
        l == CopyLibs(h.disk, repository, fault)
        sl == Append(sh, "libs")
        config == [l.disk.config EXCEPT
                     !.deps = SetDependency(@, repository, resolvedVersion)]
        s == saveConfig(l.disk, config, fault)
        ss == Append(sl, "save")
        c == UpdateCMake(s.disk, repository, p, fault)
        sc == Append(ss, "patch")
        r == removeFolderRecursively(c.disk, p, fault)
        sr == Append(sc, "cleanup")
    IN IF ~f.ok THEN caught(f.disk, f.git, "fetch", sf)
       ELSE IF ~h.ok THEN caught(h.disk, f.git, "headers", sh)
       ELSE IF ~l.ok THEN caught(l.disk, f.git, "libs", sl)
       ELSE IF ~c.ok THEN caught(c.disk, f.git, "patch", sc)
       ELSE IF r.outcome = "thrown" THEN caught(r.disk, f.git, "cleanup", sr)
       ELSE Staged(Result(r.disk,
                          IF r.outcome = "warning" THEN {"Warning"} ELSE {},
                          Report("installed", repository, resolvedVersion),
                          f.git,
                          IF ~s.ok THEN "save"
                          ELSE IF r.outcome = "warning" THEN "cleanup" ELSE "none",
                          FALSE),
                   sr)

\* install, from the try block on: the dependency is not in the manifest
InstallNew(D, repository, resolvedVersion, p, fault) ==
    LET caught(d, git, at, st) ==
            Staged(Result(d, {"Failed to install package"}, NoReport, git, at, FALSE), st)
        killed(d, git, st) ==
            Staged(Result(d, {}, NoReport, git, "crash", FALSE), st)
        f == Fetch(D, repository, resolvedVersion, fault)
        sf == <<"workspace", "fetch">>
        h == CopyHeaders(f.disk, repository, fault)
        sh == Append(sf, "headers")
        l == CopyLibs(h.disk, repository, fault)
        sl == Append(sh, "libs")
        c == UpdateCMake(l.disk, repository, p, fault)
        sc == Append(sl, "patch")
        config == [c.disk.config EXCEPT
                     !.deps = SetDependency(@, repository, resolvedVersion)]
        s == saveConfig(c.disk, config, fault)
        ss == Append(sc, "save")
        r == removeFolderRecursively(s.disk, p, fault)
        sr == Append(ss, "cleanup")
    IN IF ~f.ok THEN caught(f.disk, f.git, "fetch", sf)
       ELSE IF fault.at = "crashAfterFetch" THEN killed(f.disk, f.git, sf)
       ELSE IF ~h.ok THEN caught(h.disk, f.git, "headers", sh)
       ELSE IF fault.at = "crashAfterHeaders" THEN killed(h.disk, f.git, sh)
       ELSE IF ~l.ok THEN caught(l.disk, f.git, "libs", sl)
       ELSE IF fault.at = "crashAfterLibs" THEN killed(l.disk, f.git, sl)
       ELSE IF ~c.ok THEN caught(c.disk, f.git, "patch", sc)
       ELSE IF fault.at = "crashAfterPatch" THEN killed(c.disk, f.git, sc)
       ELSE IF fault.at \in {"crashInSave", "crashAfterSave"}
       THEN killed(s.disk, f.git, ss)
       ELSE IF r.outcome = "thrown" THEN caught(r.disk, f.git, "cleanup", sr)
       ELSE Staged(Result(r.disk,
                          IF r.outcome = "warning" THEN {"Warning"} ELSE {},
                          Report("installed", repository, resolvedVersion),
                          f.git,
                          IF ~s.ok THEN "save"
                          ELSE IF r.outcome = "warning" THEN "cleanup" ELSE "none",
                          FALSE),
                   sr)

\* variant: install without the already-installed guard
installUnguarded(D, repository, version, p, fault) ==
    IF ~D.config.exists
    THEN Result(D, {"TegenConfig.json not found"}, NoReport, <<>>, "none", FALSE)
    ELSE IF LoadThrows(D)
    THEN Result(D, {}, NoReport, <<>>, "manifest", TRUE)
    ELSE LET e == EnsureDirectories(D, fault) IN
         IF ~e.ok
         THEN Staged(Result(e.disk, {}, NoReport, <<>>, "workspace", TRUE),
                     <<"workspace">>)
         ELSE InstallNew(e.disk, repository, ResolveVersion(p, version), p, fault)

\* void install(const std::string &repository, const std::string &version = "")
install(D, repository, version, p, fault) ==
    IF ~D.config.exists
    THEN Result(D, {"TegenConfig.json not found"}, NoReport, <<>>, "none", FALSE)
    ELSE IF LoadThrows(D)
    THEN Result(D, {}, NoReport, <<>>, "manifest", TRUE)
    ELSE LET e == EnsureDirectories(D, fault)
             resolvedVersion == ResolveVersion(p, version)
         IN IF ~e.ok
            THEN Staged(Result(e.disk, {}, NoReport, <<>>, "workspace", TRUE),
                        <<"workspace">>)
            ELSE IF Contains(e.disk.config.deps, repository)
            THEN Staged(Result(e.disk, {},
                               Report("already", repository,
                                      VersionOf(e.disk.config.deps, repository)),
                               <<>>, "none", FALSE),
                        <<"workspace">>)
            ELSE InstallNew(e.disk, repository, resolvedVersion, p, fault)

\* variant: init without the configExists() guard
initUnguarded(D) ==
    Result([D EXCEPT !.config = Manifest({}),
                     !.srcMain = TRUE,
                     !.projectInclude.exists = TRUE,
                     !.cmakeFile = <<Block("", {}, FALSE)>>],
           {}, Report("initialized", "", ""), <<>>, "none", FALSE)

\* void init()
init(D) ==
    IF D.config.exists
    THEN Result(D, {}, Report("exists", "", ""), <<>>, "none", FALSE)
    ELSE LET config == Manifest({})
             s == saveConfig(D, config, NoFault)
         IN Result([s.disk EXCEPT !.srcMain = TRUE,
                                  !.projectInclude.exists = TRUE,
                                  !.cmakeFile = <<Block("", {}, FALSE)>>],
                   {}, Report("initialized", "", ""), <<>>, "none", FALSE)

\* void listDependencies()
listDependencies(D) ==
    IF ~D.config.exists
    THEN Result(D, {"TegenConfig.json not found"}, NoReport, <<>>, "none", FALSE)
    ELSE IF LoadThrows(D)
    THEN Result(D, {}, NoReport, <<>>, "manifest", TRUE)
    ELSE Result(D, {}, Report("list", "", ""), <<>>, "none", FALSE)

\* void build()
build(D, fault) ==
    IF ~D.config.exists
    THEN Result(D, {"TegenConfig.json not found"}, NoReport, <<>>, "none", FALSE)
    ELSE IF fault.at = "configure" \/ fault.at = "compile"
    THEN Result(D, {}, NoReport, <<>>, "build", TRUE)
    ELSE Result([D EXCEPT !.exe = TRUE], {}, Report("built", "", ""),
                <<>>, "none", FALSE)

\* void run()
run(D, fault) ==
    IF ~D.config.exists
    THEN Result(D, {"TegenConfig.json not found"}, NoReport, <<>>, "none", FALSE)
    ELSE IF LoadThrows(D)
    THEN Result(D, {}, NoReport, <<>>, "manifest", TRUE)
    ELSE IF ~D.exe
    THEN Result(D, {"Executable not found"}, NoReport, <<>>, "none", FALSE)
    ELSE IF fault.at = "runTarget"
    THEN Result(D, {"Failed to run the project"}, NoReport, <<>>, "run", FALSE)
    ELSE Result(D, {}, Report("ran", "", ""), <<>>, "none", FALSE)

----------------------------------------------------------------------------
(* main(argc, argv): the exit status and the messages of one process.      *)

\* cmd: the command word; repository, version: the arguments install received;
\* arg: the version written on the command line; api: a direct call, not a process
Cmd(cmd, repository, version, arg, api) ==
    [cmd |-> cmd, repository |-> repository, version |-> version,
     arg |-> arg, api |-> api]

\* the try/catch of main around the dispatched method
MainExit(r) == IF r.thrown THEN 1 ELSE 0

MainStderr(r) == IF r.thrown THEN r.stderr \cup {"An error occurred"} ELSE r.stderr

NoCmd == Cmd("none", "", "", "", FALSE)

\* no process is running: the previous one, if any, has been reaped
AtPrompt == lastCmd = NoCmd

\* the effect of one process on the state
Finish(r, cmd) ==
    /\ Len(r.disk.cmakeFile) <= MaxCMakeBlocks
    /\ disk' = r.disk
    /\ lastCmd' = cmd
    /\ exitStatus' = MainExit(r)
    /\ stderr' = MainStderr(r)
    /\ stdout' = r.stdout
    /\ gitLog' = r.git
    /\ failedAt' = r.failedAt
    /\ stageLog' = r.stages
    /\ UNCHANGED <<platform, descent>>

\* the version main hands to install: manager.install(package)
MainVersion(argvVersion) == ""

----------------------------------------------------------------------------
(* The state machine: one process, or one direct call of install, per step *)

\* no descent is being followed
NoDescent == [tree |-> {}, libDir |-> <<>>, steps |-> 0, pc |-> "idle"]

EmptyDisk ==
    [config |-> [exists |-> FALSE, valid |-> FALSE, deps |-> {}],
     modulesDir |-> FALSE,
     repoDir |-> {},
     projectInclude |-> [exists |-> FALSE, files |-> {}],
     projectLib |-> [exists |-> FALSE, files |-> {}],
     cmakeFile |-> <<>>,
     srcMain |-> FALSE,
     exe |-> FALSE]

Init ==
    /\ disk = EmptyDisk
    /\ platform \in Platforms
    /\ lastCmd = NoCmd
    /\ exitStatus = NoExit
    /\ stderr = {}
    /\ stdout = NoReport
    /\ gitLog = <<>>
    /\ failedAt = "none"
    /\ stageLog = <<>>
    /\ descent = NoDescent

\* Tegen -h
MainHelp ==
    /\ AtPrompt
    /\ Finish(Result(disk, {}, Report("help", "", ""), <<>>, "none", FALSE),
           Cmd("-h", "", "", "", FALSE))

\* Tegen with no command: return 1
MainUsage ==
    /\ AtPrompt
    /\ disk' = disk
    /\ lastCmd' = Cmd("", "", "", "", FALSE)
    /\ exitStatus' = 1
    /\ stderr' = {"Usage"}
    /\ stdout' = NoReport
    /\ gitLog' = <<>>
    /\ failedAt' = "none"
    /\ stageLog' = <<>>
    /\ UNCHANGED <<platform, descent>>

\* Tegen init
MainInit ==
    /\ AtPrompt
    /\ Finish(init(disk), Cmd("init", "", "", "", FALSE))

\* Tegen install, without a package: return 1
MainInstallNoPackage ==
    /\ AtPrompt
    /\ disk' = disk
    /\ lastCmd' = Cmd("install", "", "", "", FALSE)
    /\ exitStatus' = 1
    /\ stderr' = {"Please specify a package to install"}
    /\ stdout' = NoReport
    /\ gitLog' = <<>>
    /\ failedAt' = "none"
    /\ stageLog' = <<>>
    /\ UNCHANGED <<platform, descent>>

\* Tegen install <package> [version]
MainInstall(repository, argvVersion, fault) ==
    /\ AtPrompt
    /\ Finish(install(disk, repository, MainVersion(argvVersion), platform, fault),
           Cmd("install", repository, MainVersion(argvVersion), argvVersion, FALSE))

\* Tegen list
MainList ==
    /\ AtPrompt
    /\ Finish(listDependencies(disk), Cmd("list", "", "", "", FALSE))

\* Tegen build
MainBuild(fault) ==
    /\ AtPrompt
    /\ Finish(build(disk, fault), Cmd("build", "", "", "", FALSE))

\* Tegen run
MainRun(fault) ==
    /\ AtPrompt
    /\ Finish(run(disk, fault), Cmd("run", "", "", "", FALSE))

\* Tegen <anything else>
MainUnknown ==
    /\ AtPrompt
    /\ Finish(Result(disk, {"Unknown command"}, NoReport, <<>>, "none", FALSE),
           Cmd("bogus", "", "", "", FALSE))

\* a direct call manager.install(repository, version)
Install(repository, version, fault) ==
    LET r == install(disk, repository, version, platform, fault) IN
    /\ AtPrompt
    /\ Len(r.disk.cmakeFile) <= MaxCMakeBlocks
    /\ disk' = r.disk
    /\ lastCmd' = Cmd("install", repository, version, "", TRUE)
    /\ exitStatus' = NoExit
    /\ stderr' = r.stderr
    /\ stdout' = r.stdout
    /\ gitLog' = r.git
    /\ failedAt' = r.failedAt
    /\ stageLog' = r.stages
    /\ UNCHANGED <<platform, descent>>

\* the process has ended and its exit status and output have been consumed
Return ==
    /\ ~AtPrompt
    /\ lastCmd' = NoCmd
    /\ exitStatus' = NoExit
    /\ stderr' = {}
    /\ stdout' = NoReport
    /\ gitLog' = <<>>
    /\ failedAt' = "none"
    /\ stageLog' = <<>>
    /\ UNCHANGED <<disk, platform, descent>>

Next ==
    \/ MainHelp
    \/ MainUsage
    \/ MainInit
    \/ MainInstallNoPackage
    \/ \E repository \in Names, v \in RequestedVersions :
          \E fault \in InstallFaults(repository) : MainInstall(repository, v, fault)
    \/ MainList
    \/ \E fault \in BuildFaults : MainBuild(fault)
    \/ \E fault \in RunFaults : MainRun(fault)
    \/ MainUnknown
    \/ \E repository \in Names, v \in RequestedVersions :
          \E fault \in InstallFaults(repository) : Install(repository, v, fault)
    \/ Return

Spec == Init /\ [][Next]_vars

----------------------------------------------------------------------------
(* A project in use: init has run, the user may have put files of their own *)
(* under include/ and lib/, and the process running install may be killed.  *)

\* a file the user wrote at target
UserFile(target) == <<target, <<"user", <<>>>>>>

UserInclude == {UserFile(<<File("common", "h")>>), UserFile(<<File("mine", "h")>>)}

UserLib == {UserFile(File("libb", "lib")), UserFile(File("mine", "a"))}

\* the dependencies installed in the project in use
UsedNames == Names \cup {"c"}

InitUsed ==
    /\ disk = [init(EmptyDisk).disk EXCEPT
                  !.projectInclude.files = UserInclude,
                  !.projectLib = [exists |-> TRUE, files |-> UserLib]]
    /\ platform = "Linux"
    /\ lastCmd = NoCmd
    /\ exitStatus = NoExit
    /\ stderr = {}
    /\ stdout = NoReport
    /\ gitLog = <<>>
    /\ failedAt = "none"
    /\ stageLog = <<>>
    /\ descent = NoDescent

NextUsed ==
    \/ \E repository \in UsedNames :
          \E fault \in InstallFaults(repository) \cup CrashFaults :
             Install(repository, "", fault)
    \/ Return

SpecUsed == InitUsed /\ [][NextUsed]_vars

----------------------------------------------------------------------------
(* The descent of COPY LIBS on its own, one iteration of the loop per step, *)
(* over staged trees with chains of single-entry directories and links.     *)

\* lib/ followed by k directories with one entry each
ChainDir(k) == <<Dir("lib")>> \o [i \in 1..k |-> Dir("d")]

DescentTrees ==
    {{<<Dir("include"), File("x", "h")>>}}
    \cup {{Append(ChainDir(k), File("libx", "a"))} : k \in 0..MaxChain}
    \cup {{Append(ChainDir(k), File("libx", "a")),
            Append(ChainDir(k), File("readme", "txt"))} : k \in 0..MaxChain}
    \cup UNION {{{Append(ChainDir(k), Link("up", ChainDir(j)))} : j \in 0..k} :
                  k \in 0..MaxChain}

\* no model run follows the loop further than this
DescentCap == (SymlinkLimit + 2) * (MaxChain + 3)

InitDescent ==
    /\ disk = EmptyDisk
    /\ platform = "Linux"
    /\ lastCmd = NoCmd
    /\ exitStatus = NoExit
    /\ stderr = {}
    /\ stdout = NoReport
    /\ gitLog = <<>>
    /\ failedAt = "none"
    /\ stageLog = <<>>
    /\ \E t \in DescentTrees :
          descent = [tree |-> t, libDir |-> <<Dir("lib")>>, steps |-> 0, pc |-> "loop"]

\* the body of the while loop: libDir = *directory_iterator(libDir)
DescentStep ==
    /\ descent.pc = "loop"
    /\ descent.steps < DescentCap
    /\ Status(descent.tree, descent.libDir) # "error"
    /\ SingleChild(descent.tree, descent.libDir)
    /\ descent' = [descent EXCEPT
                     !.libDir = CHOOSE e \in Listing(descent.tree, descent.libDir) : TRUE,
                     !.steps = @ + 1]
    /\ UNCHANGED <<disk, platform, lastCmd, exitStatus, stderr, stdout, gitLog,
                   failedAt, stageLog>>

\* exists(libDir) throws filesystem_error, caught by install's handler
DescentThrow ==
    /\ descent.pc = "loop"
    /\ Status(descent.tree, descent.libDir) = "error"
    /\ descent' = [descent EXCEPT !.pc = "failed"]
    /\ UNCHANGED <<disk, platform, lastCmd, exitStatus, stderr, stdout, gitLog,
                   failedAt, stageLog>>

\* the loop condition is false: if (exists(libDir)) the files under libDir are
\* iterated, which throws when libDir is a regular file
DescentExit ==
    /\ descent.pc = "loop"
    /\ Status(descent.tree, descent.libDir) # "error"
    /\ ~SingleChild(descent.tree, descent.libDir)
    /\ descent' = [descent EXCEPT
                     !.pc = CASE Status(descent.tree, descent.libDir) = "none" -> "skipped"
                              [] Status(descent.tree, descent.libDir) = "file" -> "failed"
                              [] Status(descent.tree, descent.libDir) = "dir" -> "located"]
    /\ UNCHANGED <<disk, platform, lastCmd, exitStatus, stderr, stdout, gitLog,
                   failedAt, stageLog>>

NextDescent == DescentStep \/ DescentThrow \/ DescentExit

SpecDescent == InitDescent /\ [][NextDescent]_vars

----------------------------------------------------------------------------
(* Properties *)

\* a step in which install(repository, version) runs, by command line or direct call
InstallStep == AtPrompt /\ lastCmd'.cmd = "install" /\ lastCmd'.repository # ""

\* the state a finished install(repository, version) leaves
InstallRan == lastCmd.cmd = "install" /\ lastCmd.repository # ""

\* the stages of install that precede the manifest save
BeforeSave == {"workspace", "fetch", "headers", "libs", "patch"}

\* the default branch of the host platform, as the spec's three fixed values
ExpectedDefault ==
    CASE platform = "Windows" -> "WindowsBranch"
      [] platform = "Mac" -> "MacBranch"
      [] platform = "Linux" -> "LinuxBranch"

\* the version the spec's resolution policy yields for a requested version
Expected(version) == IF version = "" THEN ExpectedDefault ELSE version

\* the versions the git commands of the last command named
FetchedVersions ==
    {gitLog[i].version : i \in {j \in 1..Len(gitLog) : gitLog[j].op \in {"clone", "checkout"}}}

BlocksFor(d) ==
    Cardinality({i \in 1..Len(disk.cmakeFile) : disk.cmakeFile[i].dep = d})

\* C3: however many times the patch step has run for a dependency, the build
\* description holds exactly one marked block for it.
C3_OneBlockPerDependency == \A d \in Names : BlocksFor(d) <= 1

\* C4: install without a manifest reports an error, exits non-zero and creates
\* no manifest, staging directory, include directory or lib directory.
C4_InstallWithoutManifest ==
    (InstallRan /\ ~lastCmd.api /\ ~disk.config.exists)
    => /\ stderr # {}
       /\ exitStatus = 1
       /\ ~disk.modulesDir
       /\ ~disk.projectInclude.exists
       /\ ~disk.projectLib.exists

\* C5: for every command the exit status is 0 exactly when no failure was
\* reported on the error channel (a cleanup warning is not a failure).
C5_ExitStatusReflectsFailure ==
    (~lastCmd.api /\ lastCmd.cmd \in {"init", "install", "list", "build", "run", "bogus"})
    => ((exitStatus = 0) <=> (stderr \ {"Warning"} = {}))

\* C6: the content of an existing manifest changes only in an install that
\* reaches its manifest-save step; list, build, run and init on a project that
\* has a manifest leave it unchanged.
C6_ManifestChangedOnlyBySave ==
    [][ /\ (disk.config.exists /\ disk'.config # disk.config
              => lastCmd'.cmd = "install" /\ failedAt' \notin BeforeSave)
        /\ (disk.config.exists /\ lastCmd'.cmd \in {"init", "list", "build", "run"}
              => disk'.config = disk.config)
      ]_vars

\* init ran on a project whose manifest records a dependency
C6_Witness ==
    /\ lastCmd.cmd = "init" /\ stdout.kind = "exists"
    /\ disk.config.exists /\ disk.config.deps # {}

\* C7: after a successful install(d), running install(d) again, with nothing
\* failing, leaves the whole on-disk project state as the first run left it.
C7_SecondInstallSameDisk ==
    (InstallRan /\ stdout.kind = "installed" /\ failedAt = "none")
    => install(disk, lastCmd.repository, lastCmd.version, platform, NoFault).disk = disk

C9_CommandLineVersionUsed ==
    (InstallRan /\ ~lastCmd.api /\ lastCmd.arg # "")
    => /\ \A v \in FetchedVersions : v = lastCmd.arg
       /\ (stdout.kind = "installed" /\ failedAt = "none" =>
             <<lastCmd.repository, lastCmd.arg>> \in disk.config.deps)

\* C10: a failure while removing the staging area, in any part of the removal,
\* leaves install reporting success with at most a warning.
C10_CleanupFailureIsWarning ==
    (InstallRan /\ failedAt = "cleanup")
    => /\ stdout.kind = "installed"
       /\ stderr \subseteq {"Warning"}

\* C11: saving the manifest is atomic: whatever happens during the save of an
\* install, a crash in the middle of it included, the manifest file holds
\* either the complete prior manifest or the complete new one, never an empty
\* or partially written text.
C11_SaveIsAtomic ==
    [][ (InstallStep /\ disk.config.exists /\ disk.config.valid)
        => \/ disk'.config = disk.config
           \/ disk'.config =
                 Manifest(SetDependency(disk.config.deps, lastCmd'.repository,
                                        Expected(lastCmd'.version)))
      ]_vars

\* the files of a directory listing that the user, not an install, placed
UserPlaced(files) == {f \in files : f[2][1] = "user"}

\* C12: across any sequence of installs, integration deletes no file of the
\* consumer include or lib directory, and a file the user put there keeps its
\* content, also when a dependency ships a file with the same relative header
\* path or the same library filename.
C12_UserFilesKept ==
    [][ InstallStep
        => /\ \A f \in disk.projectInclude.files :
                 \E g \in disk'.projectInclude.files : g[1] = f[1]
           /\ \A f \in disk.projectLib.files :
                 \E g \in disk'.projectLib.files : g[1] = f[1]
           /\ UserPlaced(disk.projectInclude.files) \subseteq disk'.projectInclude.files
           /\ UserPlaced(disk.projectLib.files) \subseteq disk'.projectLib.files
      ]_vars

\* C13: header integration is idempotent: from every consumer include tree and
\* for every staged source, integrating the headers twice succeeds and leaves
\* the include tree (paths and contents) as integrating them once leaves it.
C13_HeaderIntegrationIdempotent ==
    \A d \in UsedNames :
       LET once == CopyHeaders(disk, d, NoFault)
           twice == CopyHeaders(once.disk, d, NoFault)
       IN once.ok => twice.ok /\ twice.disk.projectInclude = once.disk.projectInclude

\* the include tree holds a header of the user and headers an install placed,
\* and integrating some dependency's headers changes it
C13_Witness ==
    /\ UserPlaced(disk.projectInclude.files) # {}
    /\ UserPlaced(disk.projectInclude.files) # disk.projectInclude.files
    /\ \E d \in UsedNames :
          /\ CopyHeaders(disk, d, NoFault).ok
          /\ CopyHeaders(disk, d, NoFault).disk.projectInclude # disk.projectInclude

RECURSIVE LocatedDir(_, _)
\* the directory the claim's descent locates: the end of the chain of
\* directories whose one entry is a directory
LocatedDir(tree, dir) ==
    IF /\ Cardinality(Entries(tree, dir)) = 1
       /\ \A e \in Entries(tree, dir) : IsDirectory(tree, e)
    THEN LocatedDir(tree, CHOOSE e \in Entries(tree, dir) : TRUE)
    ELSE dir

\* C14: for every staged tree with a lib/ subtree, library integration
\* completes without failing and leaves every static-library file of the
\* located directory in the consumer lib directory under its bare filename,
\* also when the located directory holds one entry and it is a library file.
C14_LibraryIntegration ==
    \A d \in UsedNames :
       Exists(RemoteTree(d), <<Dir("lib")>>)
       => LET r == CopyLibs(disk, d, NoFault)
              located == LocatedDir(RemoteTree(d), <<Dir("lib")>>)
          IN /\ r.ok
             /\ \A f \in Entries(RemoteTree(d), located) :
                   (f \in RemoteTree(d) /\ IsLibrary(f))
                   => <<Filename(f), <<d, f>>>> \in r.disk.projectLib.files

\* the order of the stages the claim states
StageOrder == <<"workspace", "fetch", "headers", "libs", "patch", "save", "cleanup">>

\* C15: in every execution of install the stages entered are, in this order,
\* workspace directories, fetch, header integration, library integration,
\* build-description patch, manifest save, staging cleanup, up to the stage at
\* which the run ends: the manifest is written only after both integrations and
\* the patch, and the staging area is removed only after the manifest save.
C15_StageOrder ==
    [][ InstallStep
        => /\ Len(stageLog') <= Len(StageOrder)
           /\ stageLog' = SubSeq(StageOrder, 1, Len(stageLog'))
           /\ (disk'.config # disk.config
                 => /\ \E i \in 1..Len(stageLog') : stageLog'[i] = "save"
                    /\ Len(disk'.cmakeFile) = Len(disk.cmakeFile) + 1)
           /\ (Len(stageLog') >= 2 /\ ~disk'.modulesDir
                 => stageLog'[Len(stageLog')] = "cleanup")
      ]_vars

\* an install has run through all seven stages and written the manifest
C15_Witness ==
    /\ InstallRan /\ failedAt = "none" /\ stdout.kind = "installed"
    /\ stageLog = StageOrder
    /\ Contains(disk.config.deps, lastCmd.repository)
    /\ ~disk.modulesDir

\* the git commands of an update in place at version v
UpdateInPlace(v) == <<GitCmd("fetch", ""), GitCmd("checkout", v), GitCmd("pull", "")>>

\* C16: the fetch step of install(d) runs one clone at the resolved version
\* when d's staging destination does not exist; when it exists it runs fetch,
\* then checkout of the resolved version, then pull, in that order, stopping at
\* the first that fails; a failure of any of them ends the install at the
\* fetch stage with the manifest untouched.
C16_FetchByStagingState ==
    [][ (InstallStep /\ Len(stageLog') >= 2)
        => LET d == lastCmd'.repository
               v == Expected(lastCmd'.version)
           IN /\ (d \notin disk.repoDir => gitLog' = <<GitCmd("clone", v)>>)
              /\ (d \in disk.repoDir
                    => /\ Len(gitLog') \in 1..3
                       /\ gitLog' = SubSeq(UpdateInPlace(v), 1, Len(gitLog'))
                       /\ (failedAt' # "fetch" => gitLog' = UpdateInPlace(v)))
              /\ (failedAt' = "fetch"
                    => /\ disk'.config = disk.config
                       /\ stageLog' = <<"workspace", "fetch">>
                       /\ stdout'.kind # "installed")
      ]_vars

\* an install found the staging destination left by an earlier run, updated it
\* in place and completed
C16_Witness ==
    /\ InstallRan /\ failedAt = "none" /\ stdout.kind = "installed"
    /\ gitLog = UpdateInPlace(Expected(lastCmd.version))
    /\ Contains(disk.config.deps, lastCmd.repository)

\* the headers and the libraries of dependency d are in the consumer tree D
Integrated(D, d) ==
    /\ \A h \in FilesUnder(RemoteTree(d), <<Dir("include")>>) :
          <<Relative(h, <<Dir("include")>>), <<d, h>>>> \in D.projectInclude.files
    /\ \A f \in FilesUnder(RemoteTree(d), <<Dir("lib")>>) :
          IsLibrary(f) => <<Filename(f), <<d, f>>>> \in D.projectLib.files

\* C17: install is resumable: after an install(d) that a crash or a failure
\* interrupted between the fetch step and the cleanup step, a later install(d)
\* in which every executed stage succeeds ends with d recorded in the
\* manifest, its headers and libraries integrated, and the staging area
\* removed.
C17_InstallResumable ==
    (/\ InstallRan
     /\ Len(stageLog) >= 2
     /\ failedAt \in {"fetch", "headers", "libs", "patch", "crash"})
    => LET r == install(disk, lastCmd.repository, lastCmd.version, platform, NoFault)
       IN (r.failedAt = "none" /\ ~r.thrown)
          => /\ Contains(r.disk.config.deps, lastCmd.repository)
             /\ Integrated(r.disk, lastCmd.repository)
             /\ ~r.disk.modulesDir
             /\ r.disk.repoDir = {}

\* the filenames of the library artifacts an install of d discovers
DiscoveredLibs(d) ==
    {Filename(f) : f \in {g \in FilesUnder(RemoteTree(d),
                                            Descend(RemoteTree(d), <<Dir("lib")>>)) :
                             IsLibrary(g)}}

\* C18: the block an install of d appends to the build description holds one
\* link directive per library artifact discovered for d in this install, and
\* no library that an earlier block already links: after installs of distinct
\* dependencies no library has more than one link directive.
C18_OneLinkPerLibrary ==
    [][ (/\ InstallStep
         /\ Len(disk'.cmakeFile) = Len(disk.cmakeFile) + 1
         /\ failedAt' # "patch")
        => LET block == disk'.cmakeFile[Len(disk'.cmakeFile)] IN
           /\ block.dep = lastCmd'.repository
           /\ block.links = DiscoveredLibs(lastCmd'.repository)
           /\ \A i \in 1..Len(disk.cmakeFile) :
                 disk.cmakeFile[i].dep # block.dep
                 => disk.cmakeFile[i].links \cap block.links = {}
      ]_vars

\* the number of components of the longest path of a tree
TreeDepth(tree) == Len(CHOOSE p \in tree : \A q \in tree : Len(q) <= Len(p))

\* C19: the single-child descent terminates for every staged tree: it takes a
\* bounded number of steps (at most the depth of the tree for each symbolic
\* link a path resolution may follow, plus one) and then stops at a located
\* directory or fails with an error, also on a tree in which a single-entry
\* directory's entry links back to an ancestor; it stops with nothing located
\* only when the tree has no lib/.
C19_DescentTerminates ==
    descent.pc # "idle"
    => /\ descent.steps <= (SymlinkLimit + 1) * TreeDepth(descent.tree)
       /\ descent.pc \in {"loop", "located", "failed", "skipped"}
       /\ (descent.pc = "skipped" => ~Exists(descent.tree, <<Dir("lib")>>))
       /\ (descent.pc = "located" => Status(descent.tree, descent.libDir) = "dir")

\* the descent of a tree whose single-entry directory links back to an
\* ancestor has ended in failure, after more steps than the tree is deep
C19_Witness ==
    /\ descent.pc = "failed"
    /\ \E p \in descent.tree : IsLink(descent.tree, p)
    /\ descent.steps > TreeDepth(descent.tree)

====
